---- MODULE Spec2Model ----
(***************************************************************************)
(* Model of src/app.py: the SearchValidationSystem class (page content     *)
(* extractor, DuckDuckGo result fetcher with its fallback, LLaMA           *)
(* validation requester, cached search_and_validate) and the button        *)
(* handler of main().                                                      *)
(*                                                                         *)
(* The program is single-threaded and synchronous, so every call is one    *)
(* atomic action.  What the outside world answers (search pages, web       *)
(* pages, the completion service) is an input of the action.  An operation *)
(* is an operator that returns an outcome record; its field exc says       *)
(* whether an exception left the operation.                                *)
(*                                                                         *)
(* Text is a TLA+ string.  The timestamp fields (datetime.now() at lines   *)
(* 66, 99 and 234) are wall-clock readings that take part in no branch;    *)
(* the records of the model do not carry them.                             *)
(***************************************************************************)
EXTENDS Integers, Sequences, FiniteSets, TLC

VARIABLES
    cache,          \* self.search_results_cache: query -> final_results
    num_results,    \* the sidebar slider "Number of search results" of main()
    ret,            \* the value the last call returned
    obs             \* what the last call did (calls made, exceptions, branch taken)

vars == <<cache, num_results, ret, obs>>

----------------------------------------------------------------------------
(* Bounds of the model *)

\* longest search page made of well-formed listings only
MaxListings == 6
\* longest search page that mixes the listing kinds (component calls)
MaxMixedLen == 2
\* largest num_results a direct call of the fetcher passes
MaxNumResults == 2

(* Program constants *)

DefaultNumResults == 5      \* num_results: int = 5
ContentLimit == 5000        \* content[:5000]
DescriptionLimit == 150     \* content[:150] + "..."
SliderMin == 3              \* st.slider(min_value=3, ...)
SliderMax == 10             \* st.slider(max_value=10, ...)
SliderDefault == 5          \* st.slider(value=5)

----------------------------------------------------------------------------
(* Python values *)

None == "<None>"            \* the value of link.get('href') when there is no href
Absent == "<absent>"        \* soup.find(...) found nothing

\* truth value of a str-or-None
Truthy(s) == s # None /\ s # ""

\* s[:n]
Prefix(s, n) == IF Len(s) <= n THEN s ELSE SubSeq(s, 1, n)

RECURSIVE Rep(_, _)
\* s * n
Rep(s, n) ==
    IF n = 0 THEN ""
    ELSE IF n % 2 = 0 THEN LET h == Rep(s, n \div 2) IN h \o h
    ELSE s \o Rep(s, n - 1)

Queries == {"test query", "Test query"}

----------------------------------------------------------------------------
(* The web: what requests.get(url, timeout=10, verify=False) finds.  A page *)
(* is given by the text of the p/h1..h6 elements of each candidate region   *)
(* once script, style, nav, footer, header and aside are removed.           *)

Html(main, article, div, body) ==
    [main |-> main, article |-> article, div |-> div, body |-> body]

Urls == {None, "", "http://a.com", "http://b.com", "http://down.com",
         "http://bare.com", "http://long.com"}

\* requests.get + raise_for_status: a missing or empty URL raises
\* MissingSchema, an unreachable host or a non-2xx status raises too
HttpGet(url) ==
    CASE url = "http://a.com" ->
            [raised |-> FALSE, html |-> Html("c", Absent, Absent, "menu c")]
      [] url = "http://b.com" ->
            [raised |-> FALSE, html |-> Html(Absent, Absent, "", "")]
      [] url = "http://bare.com" ->
            [raised |-> FALSE, html |-> Html(Absent, Absent, Absent, Absent)]
      [] url = "http://long.com" ->
            [raised |-> FALSE,
             html |-> Html(Absent, Rep("x", ContentLimit + 1), Absent, "y")]
      [] OTHER -> [raised |-> TRUE, html |-> Html(Absent, Absent, Absent, Absent)]

\* soup.find('main') or soup.find('article') or soup.find('div', ...) or soup.find('body')
MainContent(html) ==
    IF html.main # Absent THEN html.main
    ELSE IF html.article # Absent THEN html.article
    ELSE IF html.div # Absent THEN html.div
    ELSE html.body

\* the except branch of _fetch_page_content written without its return
fetch_page_content_reraise(url) ==
    LET response == HttpGet(url) IN
    IF response.raised THEN [exc |-> TRUE, val |-> ""]
    ELSE LET main_content == MainContent(response.html) IN
         [exc |-> FALSE,
          val |-> IF main_content # Absent THEN Prefix(main_content, ContentLimit) ELSE ""]

\* SearchValidationSystem._fetch_page_content
fetch_page_content(url) ==
    LET response == HttpGet(url) IN
    IF response.raised THEN [exc |-> FALSE, val |-> ""]
    ELSE LET main_content == MainContent(response.html) IN
         [exc |-> FALSE,
          val |-> IF main_content # Absent THEN Prefix(main_content, ContentLimit) ELSE ""]

----------------------------------------------------------------------------
(* Search pages.  A listing is one table.result-table of the lite page or  *)
(* one div.result of the html page: which of its elements exist, and the   *)
(* href and texts they carry.                                              *)

Listing(linkCell, anchor, snippetCell, href, title, snippet) ==
    [linkCell |-> linkCell, anchor |-> anchor, snippetCell |-> snippetCell,
     href |-> href, title |-> title, snippet |-> snippet]

Good == Listing(TRUE, TRUE, TRUE, "http://a.com", "A", "d")
GoodDown == Listing(TRUE, TRUE, TRUE, "http://down.com", "B", "")
GoodLong == Listing(TRUE, TRUE, TRUE, "http://long.com", "L", "")
NoSnippetCell == Listing(TRUE, TRUE, FALSE, "http://b.com", "A", "")
NoLinkCell == Listing(FALSE, FALSE, TRUE, None, "", "d")
NoAnchor == Listing(TRUE, FALSE, TRUE, None, "", "d")
NoHref == Listing(TRUE, TRUE, TRUE, None, "A", "d")
NoTitle == Listing(TRUE, TRUE, TRUE, "http://a.com", "", "d")

ListingKinds ==
    {Good, GoodDown, GoodLong, NoSnippetCell, NoLinkCell, NoAnchor, NoHref, NoTitle}

\* the page of n well-formed listings
GoodPage(n) == [i \in 1..n |-> Good]
LongPages == {GoodPage(n) : n \in 2..MaxListings}
\* pages that mix the kinds
MixedPages == UNION {[1..n -> ListingKinds] : n \in 0..MaxMixedLen}

\* What one search request meets: the request fails (connection error,
\* timeout, raise_for_status), or a page arrives; fault = i > 0 is an
\* exception raised inside the try body once i listings have been handled
\* (the try of lines 25-70 and that of lines 77-100 enclose the whole loop,
\* and any statement of a loop body may raise).
Outcomes(pages) ==
    {[status |-> "error", tables |-> <<>>, fault |-> 0]}
    \cup UNION {{[status |-> "ok", tables |-> p, fault |-> k] : k \in 0..Len(p)} : p \in pages}

\* a request that is not answered
Unasked == [status |-> "error", tables |-> <<>>, fault |-> 0]

\* the answers a search_and_validate call can meet
RunOutcomes == Outcomes({<<>>, <<Good>>, <<NoHref>>, <<Good, GoodDown>>, GoodPage(MaxListings)})
\* the answers a direct call of the fetcher can meet
PartsOutcomes == Outcomes(MixedPages \cup LongPages)
\* answers that hold no listing the primary strategy admits
BarrenOutcomes == Outcomes({<<NoTitle>>})
\* the answers the lite endpoint gives a run of main()
MainOutcomes == Outcomes({<<>>, <<Good>>} \cup LongPages)

----------------------------------------------------------------------------
(* fetch_duckduckgo_lite_results *)

\* the dict appended to results
SearchResult(url, title, snippet, content) ==
    [url |-> url, title |-> title,
     description |-> IF snippet # "" THEN snippet
                     ELSE Prefix(content, DescriptionLimit) \o "...",
     content |-> content]

\* the primary strategy's test before it fetches the page
Admits(url, title) == Truthy(url) /\ Truthy(title)

RECURSIVE PrimaryLoop(_, _, _, _, _)
\* for table in result_tables: ...   (result_count is Len(results))
PrimaryLoop(result_tables, i, results, n, fault) ==
    IF i > Len(result_tables) \/ Len(results) >= n
    THEN [raised |-> FALSE, results |-> results]
    ELSE LET table == result_tables[i]
             admit == table.linkCell /\ table.snippetCell /\ table.anchor
                      /\ Admits(table.href, table.title)
             content == IF admit THEN fetch_page_content(table.href)
                        ELSE [exc |-> FALSE, val |-> ""]
             appended == IF admit /\ ~content.exc
                         THEN Append(results, SearchResult(table.href, table.title,
                                                           table.snippet, content.val))
                         ELSE results
         IN  IF content.exc \/ fault = i
             THEN [raised |-> TRUE, results |-> appended]
             ELSE PrimaryLoop(result_tables, i + 1, appended, n, fault)

RECURSIVE FallbackLoop(_, _, _, _)
\* for result in soup.find_all('div', {'class': 'result'})[:num_results]: ...
FallbackLoop(divs, i, results, fault) ==
    IF i > Len(divs)
    THEN [raised |-> FALSE, results |-> results]
    ELSE LET result == divs[i]
             content == IF result.anchor THEN fetch_page_content(result.href)
                        ELSE [exc |-> FALSE, val |-> ""]
             description == IF result.snippetCell THEN result.snippet ELSE ""
             appended == IF result.anchor /\ ~content.exc
                         THEN Append(results, SearchResult(result.href, result.title,
                                                           description, content.val))
                         ELSE results
         IN  IF content.exc \/ fault = i
             THEN [raised |-> TRUE, results |-> appended]
             ELSE FallbackLoop(divs, i + 1, appended, fault)

\* the fallback entered whenever the primary strategy raised
NeedsFallback_onRaise(p) == p.raised \/ Len(p.results) = 0

\* if not results:
NeedsFallback(p) == Len(p.results) = 0

\* except Exception as e: st.error(...)   (line 102): whatever the fallback
\* raised is reported and does not leave the fetcher
FallbackCatch(f) == FALSE

\* [:num_results]
Cap(divs, n) == Prefix(divs, n)

\* what a call of the fetcher did: p is how the primary strategy ended, go
\* whether the fallback request was made, f how the call ended
FetcherOutcome(p, go, f) ==
    [exc |-> FallbackCatch(f),
     val |-> f.results,
     primary_raised |-> p.raised,
     primary_count |-> Len(p.results),
     fallback_calls |-> IF go THEN 1 ELSE 0,
     fallback_raised |-> f.raised]

\* lines 25-73: the primary strategy inside its try/except
PrimaryStrategy(n, primary) ==
    IF primary.status = "error"
    THEN [raised |-> TRUE, results |-> <<>>]
    ELSE PrimaryLoop(primary.tables, 1, <<>>, n, primary.fault)

\* lines 77-103: the fallback strategy, results holding what the primary left
FallbackStrategy(n, results, fallback) ==
    IF fallback.status = "error"
    THEN [raised |-> TRUE, results |-> results]
    ELSE FallbackLoop(Cap(fallback.tables, n), 1, results, fallback.fault)

\* lines 75-105
AfterPrimary(n, p, fallback) ==
    IF NeedsFallback(p)
    THEN FetcherOutcome(p, TRUE, FallbackStrategy(n, p.results, fallback))
    ELSE FetcherOutcome(p, FALSE, [raised |-> FALSE, results |-> p.results])

\* SearchValidationSystem.fetch_duckduckgo_lite_results
fetch_duckduckgo_lite_results(query, n, primary, fallback) ==
    AfterPrimary(n, PrimaryStrategy(n, primary), fallback)

----------------------------------------------------------------------------
(* validate_with_llama *)

\* what groq_client.chat.completions.create(...) does: it raises (network,
\* authentication, rate limit), or answers with no choices, or with one
\* choice whose message content is the given text
Completions ==
    {[kind |-> "raise", content |-> "Connection error."],
     [kind |-> "no_choices", content |-> ""],
     [kind |-> "ok", content |-> ""],
     [kind |-> "ok", content |-> "{not valid json"],
     [kind |-> "ok", content |-> "{\"summary\": \"s\"}"],
     [kind |-> "ok", content |->
        "{\"summary\": \"s\", \"validation\": \"v\", \"inconsistencies\": [], \"references\": [\"http://a.com\"]}"]}

\* json.loads on the contents above: raised stands for JSONDecodeError
json_loads(text) ==
    CASE text = "{\"summary\": \"s\"}" ->
            [raised |-> FALSE, val |-> [summary |-> "s"]]
      [] text = "{\"summary\": \"s\", \"validation\": \"v\", \"inconsistencies\": [], \"references\": [\"http://a.com\"]}" ->
            [raised |-> FALSE,
             val |-> [summary |-> "s", validation |-> "v", inconsistencies |-> <<>>,
                      references |-> <<"http://a.com">>]]
      [] OTHER -> [raised |-> TRUE, val |-> [raised |-> "JSONDecodeError"]]

\* the dict the three error branches return
Placeholder(validation) ==
    [summary |-> "Error in validation process", validation |-> validation,
     inconsistencies |-> <<>>, references |-> <<>>]

\* the empty-list test left out
validate_with_llama_noguard(query, search_results, llm) ==
    IF llm.kind = "raise"
    THEN [exc |-> FALSE, val |-> Placeholder(llm.content), llm_calls |-> 1]
    ELSE IF llm.kind = "no_choices" \/ llm.content = ""
    THEN [exc |-> FALSE, val |-> Placeholder("Empty response from Groq API"), llm_calls |-> 1]
    ELSE LET parsed == json_loads(llm.content) IN
         IF parsed.raised
         THEN [exc |-> FALSE, val |-> Placeholder("Invalid JSON response from Groq"),
               llm_calls |-> 1]
         ELSE [exc |-> FALSE, val |-> parsed.val, llm_calls |-> 1]

\* the JSONDecodeError and Exception handlers left out
validate_with_llama_nocatch(query, search_results, llm) ==
    IF Len(search_results) = 0
    THEN [exc |-> FALSE, val |-> [error |-> "No valid search results to analyze"],
          llm_calls |-> 0]
    ELSE IF llm.kind = "raise"
    THEN [exc |-> TRUE, val |-> [raised |-> llm.content], llm_calls |-> 1]
    ELSE IF llm.kind = "no_choices" \/ llm.content = ""
    THEN [exc |-> FALSE, val |-> Placeholder("Empty response from Groq API"), llm_calls |-> 1]
    ELSE LET parsed == json_loads(llm.content) IN
         [exc |-> parsed.raised, val |-> parsed.val, llm_calls |-> 1]

\* SearchValidationSystem.validate_with_llama
validate_with_llama(query, search_results, llm) ==
    IF Len(search_results) = 0
    THEN [exc |-> FALSE, val |-> [error |-> "No valid search results to analyze"],
          llm_calls |-> 0]
    ELSE IF llm.kind = "raise"
    THEN [exc |-> FALSE, val |-> Placeholder(llm.content), llm_calls |-> 1]
    ELSE IF llm.kind = "no_choices" \/ llm.content = ""
    THEN [exc |-> FALSE, val |-> Placeholder("Empty response from Groq API"), llm_calls |-> 1]
    ELSE LET parsed == json_loads(llm.content) IN
         IF parsed.raised
         THEN [exc |-> FALSE, val |-> Placeholder("Invalid JSON response from Groq"),
               llm_calls |-> 1]
         ELSE [exc |-> FALSE, val |-> parsed.val, llm_calls |-> 1]

----------------------------------------------------------------------------
(* search_and_validate on the system whose self.search_results_cache is    *)
(* cache.  The outcome carries the cache as the call leaves it, the value  *)
(* returned, and what was called.                                          *)

NoResults == [error |-> "No search results found"]

\* no value: the call raised, or the stage was not reached
Nothing == [nothing |-> TRUE]

FinalResults(query, search_results, validation_results) ==
    [query |-> query, search_results |-> search_results,
     validation |-> validation_results]

\* a cache that keeps the latest record only
StoreAlone(query, final_results) == (query :> final_results)

\* a record whose report lists no reference is not stored
StoreIfReferenced(query, final_results) ==
    IF "references" \in DOMAIN final_results.validation
       /\ Len(final_results.validation.references) > 0
    THEN [q \in DOMAIN cache \cup {query} |-> IF q = query THEN final_results ELSE cache[q]]
    ELSE cache

\* self.search_results_cache[query] = final_results
Store(query, final_results) ==
    [q \in DOMAIN cache \cup {query} |-> IF q = query THEN final_results ELSE cache[q]]

\* return self.search_results_cache[query]
Hit(query) ==
    [exc |-> FALSE, val |-> cache[query], cache |-> cache, hit |-> TRUE,
     fetch_calls |-> 0, llm_calls |-> 0, fetched |-> <<>>, report |-> Nothing]

\* an exception of a collaborator leaves search_and_validate, which has no handler
Raised(fetched, llm_calls) ==
    [exc |-> TRUE, val |-> Nothing, cache |-> cache, hit |-> FALSE,
     fetch_calls |-> 1, llm_calls |-> llm_calls, fetched |-> fetched.val, report |-> Nothing]

\* the no-results answer stored like a record
Empty_cached(query, fetched) ==
    [exc |-> FALSE, val |-> NoResults, cache |-> Store(query, NoResults), hit |-> FALSE,
     fetch_calls |-> 1, llm_calls |-> 0, fetched |-> fetched.val, report |-> Nothing]

\* return {"error": "No search results found"}
Empty(query, fetched) ==
    [exc |-> FALSE, val |-> NoResults, cache |-> cache, hit |-> FALSE,
     fetch_calls |-> 1, llm_calls |-> 0, fetched |-> fetched.val, report |-> Nothing]

\* return final_results, the cache being left as c
Done(c, final_results, fetched, validated) ==
    [exc |-> FALSE, val |-> final_results, cache |-> c, hit |-> FALSE,
     fetch_calls |-> 1, llm_calls |-> validated.llm_calls,
     fetched |-> fetched.val, report |-> validated.val]

\* lines 232-240: validated is what the requester returned
Assembled(query, fetched, validated) ==
    IF validated.exc THEN Raised(fetched, validated.llm_calls)
    ELSE Done(Store(query, FinalResults(query, fetched.val, validated.val)),
              FinalResults(query, fetched.val, validated.val), fetched, validated)

\* lines 227-240: fetched is what the fetcher returned
AfterFetch(query, fetched, llm) ==
    IF fetched.exc THEN Raised(fetched, 0)
    ELSE IF Len(fetched.val) = 0 THEN Empty(query, fetched)
    ELSE Assembled(query, fetched, validate_with_llama(query, fetched.val, llm))

\* the cache test left out: every call fetches, validates and stores
search_and_validate_nocheck(query, primary, fallback, llm) ==
    AfterFetch(query,
               fetch_duckduckgo_lite_results(query, DefaultNumResults, primary, fallback),
               llm)

\* SearchValidationSystem.search_and_validate
search_and_validate(query, primary, fallback, llm) ==
    IF query \in DOMAIN cache THEN Hit(query)
    ELSE AfterFetch(query,
                    fetch_duckduckgo_lite_results(query, DefaultNumResults, primary, fallback),
                    llm)

----------------------------------------------------------------------------
(* One SearchValidationSystem, called again and again.  Every action       *)
(* leaves in ret the value returned and in obs what the call did.          *)

Silent == [kind |-> "no_choices", content |-> ""]

\* the step a call of system.search_and_validate(query) takes
Returns(query, r) ==
    /\ cache' = r.cache
    /\ ret' = r.val
    /\ obs' = [op |-> "run", query |-> query, exc |-> r.exc, hit |-> r.hit,
               fetch_calls |-> r.fetch_calls, llm_calls |-> r.llm_calls,
               fetched |-> r.fetched, report |-> r.report]
    /\ UNCHANGED num_results

RunStep(query, primary, fallback, llm) ==
    Returns(query, search_and_validate(query, primary, fallback, llm))

\* a call on a system that holds the query: the outside world is not asked
RunCached(query) ==
    /\ query \in DOMAIN cache
    /\ RunStep(query, Unasked, Unasked, Silent)

\* a call on a system that does not hold the query
RunFresh(query) ==
    /\ query \notin DOMAIN cache
    /\ \E primary \in RunOutcomes, fallback \in RunOutcomes, llm \in Completions :
          RunStep(query, primary, fallback, llm)

\* self.search_results_cache = {}
Init ==
    /\ cache = <<>>
    /\ num_results = SliderDefault
    /\ ret = Nothing
    /\ obs = [op |-> "init"]

Next ==
    \/ \E query \in Queries : RunCached(query)
    \/ \E query \in Queries : RunFresh(query)

Spec == Init /\ [][Next]_vars

----------------------------------------------------------------------------
(* The three collaborators called on their own: the initial state holds    *)
(* the call and what the outside world will answer, the action makes it.   *)

\* result lists a direct call of the requester is given
ResultLists ==
    {fetch_duckduckgo_lite_results("test query", DefaultNumResults, p, Unasked).val :
        p \in RunOutcomes}

ExtractorCalls == {[op |-> "call", f |-> "extract", url |-> u] : u \in Urls}

FetcherCalls ==
    LET Asked(ps, fs) ==
            {[op |-> "call", f |-> "fetch", n |-> n, primary |-> p, fallback |-> fb] :
                n \in (1..MaxNumResults) \cup {DefaultNumResults}, p \in ps, fb \in fs}
    IN  Asked(PartsOutcomes, {Unasked})
        \cup Asked(BarrenOutcomes, PartsOutcomes)
        \cup Asked(RunOutcomes, RunOutcomes)

RequesterCalls ==
    {[op |-> "call", f |-> "validate", search_results |-> rs, llm |-> l] :
        rs \in ResultLists, l \in Completions}

InitParts ==
    /\ cache = <<>>
    /\ num_results = SliderDefault
    /\ ret = Nothing
    /\ obs \in ExtractorCalls \cup FetcherCalls \cup RequesterCalls

ExtractorReturns(r) ==
    /\ ret' = r.val
    /\ obs' = [op |-> "extract", url |-> obs.url, exc |-> r.exc]

FetcherReturns(r) ==
    /\ ret' = r.val
    /\ obs' = [op |-> "fetch", n |-> obs.n, primary |-> obs.primary,
               fallback |-> obs.fallback, exc |-> r.exc,
               primary_raised |-> r.primary_raised,
               primary_count |-> r.primary_count,
               fallback_calls |-> r.fallback_calls,
               fallback_raised |-> r.fallback_raised]

RequesterReturns(r) ==
    /\ ret' = r.val
    /\ obs' = [op |-> "validate", n |-> Len(obs.search_results), llm |-> obs.llm,
               exc |-> r.exc, llm_calls |-> r.llm_calls]

\* self._fetch_page_content(url)
CallExtractor ==
    /\ obs.op = "call" /\ obs.f = "extract"
    /\ ExtractorReturns(fetch_page_content(obs.url))
    /\ UNCHANGED <<cache, num_results>>

\* self.fetch_duckduckgo_lite_results(query, n)
CallFetcher ==
    /\ obs.op = "call" /\ obs.f = "fetch"
    /\ FetcherReturns(fetch_duckduckgo_lite_results("test query", obs.n,
                                                    obs.primary, obs.fallback))
    /\ UNCHANGED <<cache, num_results>>

\* self.validate_with_llama(query, search_results)
CallRequester ==
    /\ obs.op = "call" /\ obs.f = "validate"
    /\ RequesterReturns(validate_with_llama("test query", obs.search_results, obs.llm))
    /\ UNCHANGED <<cache, num_results>>

NextParts == CallExtractor \/ CallFetcher \/ CallRequester

SpecParts == InitParts /\ [][NextParts]_vars

----------------------------------------------------------------------------
(* main(): Streamlit runs the script once per interaction, with the        *)
(* widgets' values of that moment.  The initial state holds the widgets    *)
(* and what the outside world will answer.                                 *)

ReportFields == {"summary", "validation", "inconsistencies", "references"}

\* what lines 277-314 put on the page for the value search_and_validate gave
Rendered(r) ==
    IF r.exc THEN "An error occurred"
    ELSE IF "error" \in DOMAIN r.val THEN "Error"
    ELSE IF "error" \in DOMAIN r.val.validation THEN "Validation Error"
    ELSE IF ReportFields \subseteq DOMAIN r.val.validation THEN "tabs"
    ELSE "An error occurred"

Reruns ==
    {[op |-> "rerun", button |-> b, query |-> q, groq_api_key |-> k,
      primary |-> p, fallback |-> fb, llm |-> l] :
        b \in BOOLEAN, q \in Queries \cup {""}, k \in {"", "gsk_key"},
        p \in MainOutcomes, fb \in {Unasked, [status |-> "ok", tables |-> <<NoHref>>, fault |-> 0]},
        l \in Completions}

InitMain ==
    /\ cache = <<>>
    /\ num_results \in SliderMin..SliderMax
    /\ ret = Nothing
    /\ obs \in Reruns

MainShows(r) ==
    /\ cache' = r.cache
    /\ ret' = r.val
    /\ obs' = [op |-> "main", query |-> obs.query, shown |-> Rendered(r)]

\* if st.button(...): if query and groq_api_key: system = SearchValidationSystem(...),
\* a system whose cache is empty; system.search_and_validate(query)
MainSearch ==
    /\ obs.op = "rerun" /\ obs.button
    /\ obs.query # "" /\ obs.groq_api_key # ""
    /\ MainShows(search_and_validate(obs.query, obs.primary, obs.fallback, obs.llm))
    /\ UNCHANGED num_results

\* elif not groq_api_key: / else:   (the warnings)
MainWarn ==
    /\ obs.op = "rerun" /\ obs.button
    /\ obs.query = "" \/ obs.groq_api_key = ""
    /\ obs' = [op |-> "main", query |-> obs.query,
               shown |-> IF obs.groq_api_key = "" THEN "Please enter your Groq API key"
                         ELSE "Please enter a search query"]
    /\ UNCHANGED <<cache, num_results, ret>>

\* the button was not pressed
MainIdle ==
    /\ obs.op = "rerun" /\ ~obs.button
    /\ obs' = [op |-> "main", query |-> obs.query, shown |-> "form"]
    /\ UNCHANGED <<cache, num_results, ret>>

NextMain == MainSearch \/ MainWarn \/ MainIdle

SpecMain == InitMain /\ [][NextMain]_vars

----------------------------------------------------------------------------
(* Properties of one system (Spec) *)

\* C1: a call of search_and_validate(Q) that starts with Q a key of the cache
\* returns exactly the record stored under Q and calls neither the fetcher
\* nor the requester.
C1_CacheHit ==
    [][\A q \in DOMAIN cache :
          (obs'.op = "run" /\ obs'.query = q)
              => /\ ret' = cache[q]
                 /\ ~obs'.exc
                 /\ obs'.fetch_calls = 0
                 /\ obs'.llm_calls = 0]_vars

C1_Witness ==
    /\ obs.op = "run" /\ obs.hit
    /\ obs.query \in DOMAIN cache
    /\ ret = cache[obs.query]
    /\ obs.fetch_calls = 0 /\ obs.llm_calls = 0

\* C2: a call for a query that is not cached calls the fetcher; when the
\* fetcher returns an empty list the call returns the error envelope, does
\* not call the requester and leaves the cache as it was, so the query is
\* still not a key and the next call for it fetches again.
C2_NoResultsNotCached ==
    [][(obs'.op = "run" /\ obs'.query \notin DOMAIN cache)
          => /\ obs'.fetch_calls = 1
             /\ Len(obs'.fetched) = 0
                  => /\ ret' = NoResults
                     /\ obs'.llm_calls = 0
                     /\ DOMAIN cache' = DOMAIN cache
                     /\ \A q \in DOMAIN cache : cache'[q] = cache[q]]_vars

C2_Witness ==
    /\ obs.op = "run" /\ ~obs.hit
    /\ Len(obs.fetched) = 0
    /\ ret = NoResults
    /\ obs.query \notin DOMAIN cache

\* C3: a call for a query that is not cached, whose fetcher returns a
\* non-empty list R, does not abort whatever report V the requester returns:
\* it returns the record (Q, R, V) and the cache holds that record under the
\* exact key Q when the call returns.
C3_RecordStored ==
    [][(obs'.op = "run" /\ obs'.query \notin DOMAIN cache /\ Len(obs'.fetched) > 0)
          => /\ ~obs'.exc
             /\ ret' = FinalResults(obs'.query, obs'.fetched, obs'.report)
             /\ obs'.query \in DOMAIN cache'
             /\ cache'[obs'.query] = ret']_vars

C3_Witness ==
    /\ obs.op = "run" /\ ~obs.hit
    /\ Len(obs.fetched) > 0
    /\ obs.report = Placeholder("Invalid JSON response from Groq")
    /\ obs.query \in DOMAIN cache
    /\ cache[obs.query] = FinalResults(obs.query, obs.fetched, obs.report)

\* C9: the cache only grows: a step never removes a key nor replaces the
\* record held under a key, and a key appears only through a call of
\* search_and_validate for that key that missed the cache.
C9_CacheOnlyGrows ==
    [][/\ \A q \in DOMAIN cache : q \in DOMAIN cache' /\ cache'[q] = cache[q]
       /\ \A q \in DOMAIN cache' \ DOMAIN cache :
             obs'.op = "run" /\ obs'.query = q /\ ~obs'.hit /\ obs'.fetch_calls = 1]_vars

C9_Witness ==
    /\ DOMAIN cache = Queries
    /\ obs.op = "run" /\ obs.hit
    /\ \E q \in Queries : cache[q].search_results # cache[obs.query].search_results

----------------------------------------------------------------------------
(* Properties of the collaborators (SpecParts) *)

\* C4: every result the fetcher returns has a non-empty url and a non-empty
\* title, whichever strategy admitted it.
C4_AdmittedHaveUrlAndTitle ==
    obs.op = "fetch"
        => \A i \in 1..Len(ret) : Truthy(ret[i].url) /\ Truthy(ret[i].title)

\* C5 as claimed: the fallback request is made whenever the primary strategy
\* raised or ended with no result, and only then.
C5_FallbackOnAnyFailure ==
    obs.op = "fetch"
        => (obs.fallback_calls = 1 <=> (obs.primary_raised \/ obs.primary_count = 0))

\* C5 as amended: the fallback request is made exactly when the result list
\* is empty once the primary strategy has ended (it raised, timed out or
\* found nothing); after a primary failure that left one or more results the
\* fallback is not made and those results are what the fetcher returns.
C5_FallbackWhenEmpty ==
    obs.op = "fetch"
        => /\ obs.fallback_calls = 1 <=> obs.primary_count = 0
           /\ obs.primary_count > 0 => Len(ret) = obs.primary_count

C5_Witness ==
    /\ obs.op = "fetch"
    /\ obs.primary_raised /\ obs.primary_count > 0
    /\ obs.fallback_calls = 0
    /\ Len(ret) = obs.primary_count

\* C6: no exception leaves the extractor, the fetcher or the requester,
\* whatever fails (either search request, a page fetch, a link without href,
\* the completion request); each returns a well-formed value: a text of at
\* most 5000 characters, empty when the page fetch failed; a possibly empty
\* list of results; a report, a placeholder report or an error report.
C6_NoExceptionEscapes ==
    /\ obs.op = "extract"
          => /\ ~obs.exc
             /\ Len(ret) <= ContentLimit
             /\ HttpGet(obs.url).raised => ret = ""
    /\ obs.op = "fetch"
          => /\ ~obs.exc
             /\ \A i \in 1..Len(ret) :
                   DOMAIN ret[i] = {"url", "title", "description", "content"}
    /\ obs.op = "validate"
          => /\ ~obs.exc
             /\ DOMAIN ret \cap ({"error"} \cup ReportFields) # {}

C6_Witness ==
    /\ obs.op = "fetch" /\ ~obs.exc
    /\ obs.primary_raised /\ obs.fallback_raised
    /\ Len(ret) > 0
    /\ ret[1].url = None /\ ret[1].content = ""

\* C7 as claimed: called with a non-empty list the requester always returns
\* a report that carries summary, validation, inconsistencies and references.
C7_AlwaysFourFields ==
    (obs.op = "validate" /\ obs.n > 0) => ReportFields \subseteq DOMAIN ret

\* C7 as amended: called with a non-empty list, the requester returns the
\* placeholder report (four fields, explanatory text, empty inconsistencies
\* and references) when the call fails or the content is empty or not valid
\* JSON; content that is valid JSON is returned as parsed, with the fields
\* it has and no others.
C7_PlaceholderOrParsed ==
    (obs.op = "validate" /\ obs.n > 0)
        => IF obs.llm.kind = "ok" /\ ~json_loads(obs.llm.content).raised
           THEN ret = json_loads(obs.llm.content).val
           ELSE /\ DOMAIN ret = ReportFields
                /\ ret.summary = "Error in validation process"
                /\ ret.validation # ""
                /\ ret.inconsistencies = <<>>
                /\ ret.references = <<>>

C7_Witness ==
    /\ obs.op = "validate" /\ obs.n > 0
    /\ obs.llm.content = "{\"summary\": \"s\"}"
    /\ DOMAIN ret = {"summary"}

\* C8: called with an empty list the requester returns a report with an
\* error field and makes no completion request; a completion request is
\* made only by a call whose list is not empty.
C8_EmptyListNoCall ==
    obs.op = "validate"
        => /\ obs.n = 0 => ("error" \in DOMAIN ret /\ obs.llm_calls = 0)
           /\ obs.llm_calls > 0 => obs.n > 0

C8_Witness ==
    /\ obs.op = "validate" /\ obs.n = 0
    /\ ret = [error |-> "No valid search results to analyze"]
    /\ obs.llm_calls = 0

----------------------------------------------------------------------------
(* Properties of main() (SpecMain) *)

\* C10: the record search_and_validate returns holds at most as many results
\* as the configured number of search results.
C10_CappedAtConfigured ==
    (obs.op = "main" /\ "search_results" \in DOMAIN ret)
        => Len(ret.search_results) <= num_results

====
